---- MODULE Spec2Model ----
(***************************************************************************)
(* A model of the Aave concierge gateway (src/aave-concierge-api): the     *)
(* request handlers of api/routes.py with the helpers of utils.py,         *)
(* oracle.py and contracts.py they call.                                   *)
(*                                                                         *)
(* Every handler is an "async def" without an await in its body, so one    *)
(* request is handled from its first to its last line before the next one  *)
(* starts: a request is one action.  The action records the response in    *)
(* resp and, in steps, the contract calls and the computation stages the   *)
(* handler went through, in the order of the code.                         *)
(*                                                                         *)
(* Numbers.  The code computes with Python floats; the model computes the  *)
(* same expressions with exact fractions [n, d].  TLC's integers are       *)
(* 32-bit, so quantities are carried in these units:                       *)
(*   - base-currency amounts (collateral, debt, borrow capacity, token     *)
(*     value) in whole USD, i.e. the chain's 8-decimal integers over 1e8;  *)
(*     oracle prices likewise in whole USD;                                *)
(*   - the pool's raw health factor in units of 1e14, so that raw / 1e18   *)
(*     is raw / 10000 here;                                                *)
(*   - reported health factors in thousandths (round(x, 3) * 1000);        *)
(*   - liquidation thresholds and LTVs in basis points, as the chain       *)
(*     returns them.                                                       *)
(* Request amounts are whole tokens.                                       *)
(***************************************************************************)
EXTENDS Integers, Sequences, FiniteSets, TLC

VARIABLES
    phase,      \* "idle": waiting for a request; "done": a request was answered
    req,        \* the request being answered
    resp,       \* the handler's response
    steps,      \* contract calls and stages of the handler, in code order
    chain,      \* what the chain answered the request's getUserAccountData
                \* or allowance read
    now,        \* time.time(), in seconds
    cacheData,  \* _real_time_data_cache, by cache key
    cacheTime,  \* _cache_timestamps, by cache key
    log,        \* the log_to_hedera task of the request: "none", "scheduled",
                \* "delivered" or "failed"
    flight      \* concurrent /prices requests: which handler the event loop
                \* runs, and each request's position and local variables

vars == <<phase, req, resp, steps, chain, now, cacheData, cacheTime, log, flight>>

(***************************************************************************)
(* Bounds of the model.                                                    *)
(***************************************************************************)
MaxAmount == 3      \* request amounts range over -MaxAmount..MaxAmount tokens
MaxMinutes == 2     \* requests arrive up to this many minutes after the start
MaxMantissa == 6    \* fractional amounts are m / 10^k with m in 0..MaxMantissa
MaxPlaces == 8      \* and k in 1..MaxPlaces


(***************************************************************************)
(* Exact arithmetic standing for the float arithmetic of the code.         *)
(***************************************************************************)
Abs(x) == IF x < 0 THEN -x ELSE x

RECURSIVE GCD(_, _)
GCD(a, b) == IF b = 0 THEN a ELSE GCD(b, a % b)

RECURSIVE Pow10(_)
Pow10(k) == IF k = 0 THEN 1 ELSE 10 * Pow10(k - 1)

\* the fraction n/d (d # 0) in lowest terms with a positive denominator
Rat(n, d) ==
    LET g == GCD(Abs(n), Abs(d))
        s == IF (n < 0) = (d < 0) THEN 1 ELSE -1
    IN  [n |-> s * (Abs(n) \div g), d |-> Abs(d) \div g]

RatInt(k) == [n |-> k, d |-> 1]

RatMulInt(r, k) ==
    LET g == GCD(Abs(k), r.d)
    IN  Rat(r.n * (k \div g), r.d \div g)

RatDivInt(r, k) ==
    LET g == GCD(Abs(r.n), Abs(k))
    IN  Rat(r.n \div g, r.d * (k \div g))

RatAdd(a, b) ==
    LET g == GCD(a.d, b.d)
    IN  Rat(a.n * (b.d \div g) + b.n * (a.d \div g), (a.d \div g) * b.d)

\* int(x): truncation toward zero
Trunc(r) == IF r.n >= 0 THEN r.n \div r.d ELSE -((-r.n) \div r.d)

\* floor(1000 * r) and what is left, for r >= 0, by long division
MilliDigits(r) ==
    LET q  == r.n \div r.d
        r0 == r.n % r.d
        d1 == (10 * r0) \div r.d
        r1 == (10 * r0) % r.d
        d2 == (10 * r1) \div r.d
        r2 == (10 * r1) % r.d
        d3 == (10 * r2) \div r.d
        r3 == (10 * r2) % r.d
    IN  [m |-> 1000 * q + 100 * d1 + 10 * d2 + d3, rem |-> r3, d |-> r.d]

\* round(x, 3) in thousandths, for x >= 0: to nearest, ties to even
RoundMilliPos(r) ==
    LET md == MilliDigits(r)
    IN  IF 2 * md.rem > md.d THEN md.m + 1
        ELSE IF 2 * md.rem < md.d THEN md.m
        ELSE md.m + (md.m % 2)

\* round(x, 3) in thousandths
Round3(r) ==
    IF r.n < 0 THEN -RoundMilliPos([n |-> -r.n, d |-> r.d]) ELSE RoundMilliPos(r)

\* x > 999.999
Above999999(r) ==
    /\ r.n > 0
    /\ LET q == r.n \div r.d
       IN  \/ q >= 1000
           \/ LET md == MilliDigits(r) IN md.m = 999999 /\ md.rem > 0

(***************************************************************************)
(* config.py: the network table.  base-sepolia and eth-sepolia are entries *)
(* of get_fallback_config, with those of their assets that requests name  *)
(* (and cbETH, which no upper-cased request token matches); custom-net is  *)
(* an                                                                      *)
(* address-book entry without AAVE_PROTOCOL_DATA_PROVIDER and ORACLE,      *)
(* which load_network_configurations reads with .get and stores as None.   *)
(* The normalisation loop at the end of config.py rebuilds every asset     *)
(* without its "oracle" key, so no asset has a per-token oracle.           *)
(***************************************************************************)
ConfiguredNetworks == {"base-sepolia", "eth-sepolia", "custom-net"}

NETWORK_CONFIG(key) ==
    CASE key = "base-sepolia" ->
            [pdp |-> TRUE, oracle |-> TRUE, assets |-> <<"USDC", "WBTC", "cbETH">>]
      [] key = "eth-sepolia" ->
            [pdp |-> TRUE, oracle |-> TRUE, assets |-> <<"WBTC", "USDC", "EURS">>]
      [] key = "custom-net" ->
            [pdp |-> FALSE, oracle |-> FALSE, assets |-> <<"WBTC">>]

AssetDecimals(sym) ==
    CASE sym = "USDC" -> 6
      [] sym = "USDT" -> 6
      [] sym = "WBTC" -> 8
      [] sym = "EURS" -> 2
      [] OTHER -> 18

Range(seq) == {seq[i] : i \in DOMAIN seq}

Assets(key) == Range(NETWORK_CONFIG(key).assets)

\* get_network_config: name.lower().replace(" ", "-")
NetworkKey(name) ==
    CASE name = "Base Sepolia" -> "base-sepolia"
      [] OTHER -> name

\* str.upper() on the token symbols requests carry
Upper(token) ==
    CASE token = "usdc" -> "USDC"
      [] token = "cbETH" -> "CBETH"
      [] OTHER -> token

(***************************************************************************)
(* What the chain answers.  A read either raises or returns a value.       *)
(***************************************************************************)
Raised == [ok |-> FALSE]
Returned(v) == [ok |-> TRUE, v |-> v]

\* getAssetPrice, in whole USD (0 and 1000001 are outside the sanity range)
PriceReads == {Raised} \cup {Returned(p) : p \in {0, 1000, 1000001}}

\* getReserveConfigurationData: [1] ltv, [2] liquidationThreshold (basis
\* points), [8] isActive, [6] borrowingEnabled
ConfigReads ==
    {Raised} \cup
    {Returned([ltv |-> 7500, liquidationThreshold |-> 8500,
               isActive |-> TRUE, borrowingEnabled |-> TRUE])}

LiveRead ==
    [price |-> Returned(1000),
     config |-> Returned([ltv |-> 7500, liquidationThreshold |-> 8500,
                          isActive |-> TRUE, borrowingEnabled |-> TRUE])]

\* getUserAccountData: the six uint256 the pool returns
AccountData(c, d, a, lt, ltv, hf) ==
    [totalCollateralBase |-> c, totalDebtBase |-> d, availableBorrowsBase |-> a,
     currentLiquidationThreshold |-> lt, ltv |-> ltv, healthFactor |-> hf]

(***************************************************************************)
(* oracle.py                                                               *)
(***************************************************************************)
get_fallback_price(sym) ==
    CASE sym = "USDC" -> 1
      [] sym = "USDT" -> 1
      [] sym = "DAI" -> 1
      [] sym = "WETH" -> 2000
      [] sym = "WBTC" -> 50000
      [] sym = "LINK" -> 15
      [] sym = "cbETH" -> 3000
      [] OTHER -> 1

get_fallback_liquidation_threshold(sym) ==
    CASE sym = "USDC" -> Rat(90, 100)
      [] sym = "USDT" -> Rat(90, 100)
      [] sym = "DAI" -> Rat(90, 100)
      [] sym = "WETH" -> Rat(85, 100)
      [] sym = "WBTC" -> Rat(85, 100)
      [] sym = "LINK" -> Rat(80, 100)
      [] sym = "cbETH" -> Rat(85, 100)
      [] OTHER -> Rat(80, 100)

get_token_price_oracle(read) ==
    IF ~read.ok THEN 0
    ELSE IF read.v <= 0 \/ read.v > 1000000 THEN 0
    ELSE read.v

\* None is [ok |-> FALSE]; thresholds are fractions: basis points / 10000
get_asset_real_time_data(read) ==
    IF ~read.ok THEN [ok |-> FALSE]
    ELSE [ok |-> TRUE,
          ltv |-> Rat(read.v.ltv, 10000),
          liquidation_threshold |-> Rat(read.v.liquidationThreshold, 10000),
          is_active |-> read.v.isActive,
          borrowing_enabled |-> read.v.borrowingEnabled]

AssetEntry(read) ==
    LET asset_config == get_asset_real_time_data(read.config)
    IN  [price |-> get_token_price_oracle(read.price),
         liquidation_threshold |->
             IF asset_config.ok THEN asset_config.liquidation_threshold ELSE Rat(80, 100),
         ltv |-> IF asset_config.ok THEN asset_config.ltv ELSE RatInt(0),
         is_active |-> IF asset_config.ok THEN asset_config.is_active ELSE TRUE,
         borrowing_enabled |->
             IF asset_config.ok THEN asset_config.borrowing_enabled ELSE TRUE]

\* reads: what the chain answers for each asset of the network
get_all_real_time_asset_data(key, reads) ==
    LET cfg == NETWORK_CONFIG(key)
    IN  IF ~cfg.pdp THEN << >>
        ELSE IF ~cfg.oracle THEN << >>
        ELSE [sym \in Assets(key) |-> AssetEntry(reads[sym])]

\* one get_all_real_time_asset_data and its contract calls, in order
FetchCalls(key) ==
    LET cfg == NETWORK_CONFIG(key)
    IN  <<"get_all_real_time_asset_data">> \o
        (IF ~cfg.pdp \/ ~cfg.oracle THEN << >>
         ELSE [i \in 1..(2 * Len(cfg.assets)) |->
                  IF i % 2 = 1 THEN "getAssetPrice" ELSE "getReserveConfigurationData"])

get_real_time_token_price(key, sym, read) ==
    IF sym \notin Assets(key) THEN get_fallback_price(sym)
    ELSE IF ~NETWORK_CONFIG(key).oracle THEN get_fallback_price(sym)
    ELSE get_token_price_oracle(read)

PriceCalls(key, sym) ==
    IF sym \in Assets(key) /\ NETWORK_CONFIG(key).oracle THEN <<"getAssetPrice">> ELSE << >>

(***************************************************************************)
(* Requests and responses.                                                 *)
(***************************************************************************)
RequestNetworks == ConfiguredNetworks \cup {"Base Sepolia", "unknown-net"}
RequestTokens == {"usdc", "WBTC", "cbETH", "EURS", "DOGE"}
Amounts == (-MaxAmount..MaxAmount) \cup {1000000001}

\* an HTTP error response: the status code and what it reports
Error(status, kind) == [status |-> status, error |-> kind]

NoRequest == [endpoint |-> "none"]
NoResponse == [status |-> 0]

Contains(seq, x) == \E i \in DOMAIN seq : seq[i] = x

\* the outcome of a request's getUserAccountData, with the raw health factor
NoReads == [getUserAccountData |-> "none"]
AccountRead(read) ==
    IF read.ok THEN [getUserAccountData |-> "returned", healthFactor |-> read.v]
    ELSE [getUserAccountData |-> "raised"]

\* what the chain answered a /simulate that got past the account read: the
\* account and the configuration of the request's token
SimulateReads(account_data, configRead) ==
    [getUserAccountData |-> "returned", healthFactor |-> account_data.healthFactor,
     account |-> account_data, config |-> configRead]

\* what the chain answered the reads of one get_all_real_time_asset_data
FetchRead(key, reads) ==
    IF NETWORK_CONFIG(key).pdp /\ NETWORK_CONFIG(key).oracle
    THEN [getUserAccountData |-> "none", fetch |-> reads]
    ELSE [getUserAccountData |-> "none"]

\* what the chain answered the send and the wait of /execute/transaction, as
\* far as the handler got
BalanceOfReads(out, reads) ==
    IF Contains(out.steps, "balanceOf")
    THEN [getUserAccountData |-> "none", balanceOf |-> reads]
    ELSE NoReads

ExecuteReads(out, sent, receipt) ==
    IF Contains(out.steps, "wait_for_transaction_receipt")
    THEN [getUserAccountData |-> "none", sent |-> sent, receipt |-> receipt]
    ELSE IF Contains(out.steps, "send_raw_transaction")
    THEN [getUserAccountData |-> "none", sent |-> sent]
    ELSE [getUserAccountData |-> "none"]

\* the outcome of a request's allowance(owner, spender) read
AllowanceRead(read) == [getUserAccountData |-> "none", allowance |-> read]

(***************************************************************************)
(* routes.py: POST /simulate                                               *)
(***************************************************************************)
SimRequests ==
    [endpoint : {"simulate"}, network : RequestNetworks, token : RequestTokens,
     amount : Amounts, action : {"none", "supply", "borrow"}, user_ok : BOOLEAN]

\* the account snapshots the pool answers /simulate with
SimAccounts ==
    {AccountData(c, d, a, lt, 7500, hf) :
        c \in {0, 10000}, d \in {0, 5000}, a \in {0, 3000},
        lt \in {0, 8000}, hf \in {0, 16000}}

\* models.SimulateResponse, the response_model of /simulate: the caller gets
\* the fields of the model out of the dict the handler returns, with None
\* for an optional field the dict does not have
SimulateResponseFields ==
    {"action", "token", "amount", "network", "health_factor_before",
     "health_factor_after_est", "safety", "note", "available_borrows",
     "current_capacity_check"}

SimulateResponse(result) ==
    [field \in SimulateResponseFields |->
        IF field \in DOMAIN result THEN result[field] ELSE "None"]

\* everything up to the account read: the response that ends the request
\* there, or status 0 to go on
SimulatePrologue(r, poolOk) ==
    LET key == NetworkKey(r.network)
        token == Upper(r.token)
    IN  IF key \notin ConfiguredNetworks
        THEN [resp |-> Error(400, "UnsupportedNetwork"), steps |-> << >>]
        ELSE IF ~r.user_ok
        THEN [resp |-> Error(500, "InvalidAddress"), steps |-> << >>]
        ELSE IF ~poolOk
        THEN [resp |-> Error(500, "UpstreamUnavailable"), steps |-> <<"getPool">>]
        ELSE IF token \notin Assets(key)
        THEN [resp |-> Error(400, "UnsupportedAsset"), steps |-> <<"getPool">>]
        ELSE IF Abs(r.amount) > 1000000000
        THEN [resp |-> Error(400, "InvalidAmount"), steps |-> <<"getPool">>]
        ELSE [resp |-> NoResponse, steps |-> <<"getPool">>]

SimulateActionOf(r) ==
    IF r.action # "none" THEN r.action
    ELSE IF r.amount > 0 THEN "supply" ELSE "borrow"

SimulateAmountOf(r) ==
    IF r.action = "none" /\ r.amount < 0 THEN Abs(r.amount) ELSE r.amount

\* round(account_data[5] / 1e18 if account_data[5] else 100.0, 3)
HfBefore(raw) == Round3(IF raw # 0 THEN Rat(raw, 10000) ELSE RatInt(100))

\* the interpretation "as percentage (/ 100)", which the handler prints
WeightedAvgLtAsPercentage(current_liquidation_threshold) ==
    Rat(current_liquidation_threshold, 100)

\* the basis-point interpretation the handler settles on
WeightedAvgLt(current_liquidation_threshold) == Rat(current_liquidation_threshold, 10000)

TokenLt(real_time_data, token) ==
    IF token \in DOMAIN real_time_data
    THEN real_time_data[token].liquidation_threshold ELSE Rat(80, 100)

TokenLtv(real_time_data, token) ==
    IF token \in DOMAIN real_time_data THEN real_time_data[token].ltv ELSE RatInt(0)

TokenPrice(key, token, read) ==
    LET token_price == get_real_time_token_price(key, token, read)
    IN  IF token_price <= 0 THEN 1 ELSE token_price

\* int(amount * 10**d) / 10**d * price, as an integer of base currency
TokenValueBase(amount, token_decimals, token_price) ==
    LET token_amount_wei == Trunc(RatInt(amount * Pow10(token_decimals)))
        token_amount_human == Rat(token_amount_wei, Pow10(token_decimals))
        token_value_usd == RatMulInt(token_amount_human, token_price)
    IN  Trunc(token_value_usd)

SupplyNewTotalCollateral(total_collateral_base, token_value_base) ==
    total_collateral_base + token_value_base

SupplyNewWeightedAvgLt(total_collateral_base, weighted_avg_lt, token_value_base, token_lt) ==
    LET current_weighted_collateral == RatMulInt(weighted_avg_lt, total_collateral_base)
        new_weighted_contribution == RatMulInt(token_lt, token_value_base)
        new_weighted_collateral == RatAdd(current_weighted_collateral, new_weighted_contribution)
        new_total_collateral == SupplyNewTotalCollateral(total_collateral_base, token_value_base)
    IN  IF new_total_collateral > 0
        THEN RatDivInt(new_weighted_collateral, new_total_collateral)
        ELSE RatInt(0)

\* a borrow that leaves the debt as it was
BorrowDebtUnchanged(total_debt_base, borrow_value_base) == total_debt_base

\* a borrow that lowers the debt
BorrowDebtReduced(total_debt_base, borrow_value_base) ==
    total_debt_base - borrow_value_base

BorrowNewTotalDebt(total_debt_base, borrow_value_base) ==
    total_debt_base + borrow_value_base

\* a capacity check that also refuses a borrow of exactly the capacity
InsufficientCapacityAtLimit(borrow_value_base, available_borrows_base) ==
    borrow_value_base >= available_borrows_base

\* the capacity check of the borrow path
InsufficientCapacity(borrow_value_base, available_borrows_base) ==
    borrow_value_base > available_borrows_base

\* the Aave formula with the sentinel the claim C1 names
HfAfterSentinel999(new_total_collateral, new_weighted_avg_lt, new_total_debt) ==
    IF new_total_debt = 0 THEN Rat(999999, 1000)
    ELSE RatDivInt(RatMulInt(new_weighted_avg_lt, new_total_collateral), new_total_debt)

\* the Aave formula, or the handler's 100.0 when there is no debt
HfAfter(new_total_collateral, new_weighted_avg_lt, new_total_debt) ==
    IF new_total_debt = 0 THEN RatInt(100)
    ELSE RatDivInt(RatMulInt(new_weighted_avg_lt, new_total_collateral), new_total_debt)

\* rounding without the cap
RoundWithoutCap(hf_after) == Round3(hf_after)

\* round(min(hf_after, 999.999), 3), in thousandths
CapAndRound(hf_after) ==
    Round3(IF Above999999(hf_after) THEN Rat(999999, 1000) ELSE hf_after)

Safety(hf_after) == IF hf_after >= 1100 THEN "safe" ELSE "risky"

\* what the chain answers for every asset of the network when the requested
\* token's reads are config and price
MarketReads(key, token, config, price) ==
    [sym \in Assets(key) |->
        IF sym = token THEN [price |-> price, config |-> config] ELSE LiveRead]

\* from the account read to the end of the handler
SimulateBody(r, account_data, configRead, priceRead) ==
    LET key == NetworkKey(r.network)
        token == Upper(r.token)
        action == SimulateActionOf(r)
        amount == SimulateAmountOf(r)
        total_collateral_base == account_data.totalCollateralBase
        total_debt_base == account_data.totalDebtBase
        available_borrows_base == account_data.availableBorrowsBase
        hf_before == HfBefore(account_data.healthFactor)
        weighted_avg_lt == WeightedAvgLt(account_data.currentLiquidationThreshold)
        real_time_data ==
            get_all_real_time_asset_data(key, MarketReads(key, token, configRead, priceRead))
        token_lt == TokenLt(real_time_data, token)
        token_ltv == TokenLtv(real_time_data, token)
        token_price == TokenPrice(key, token, priceRead)
        token_value_base == TokenValueBase(amount, AssetDecimals(token), token_price)
        reads == <<"getPool", "getUserAccountData">> \o FetchCalls(key) \o FetchCalls(key)
                     \o PriceCalls(key, token)
        new_total_collateral ==
            IF action = "supply"
            THEN SupplyNewTotalCollateral(total_collateral_base, token_value_base)
            ELSE total_collateral_base
        new_total_debt ==
            IF action = "supply" THEN total_debt_base
            ELSE BorrowNewTotalDebt(total_debt_base, token_value_base)
        new_weighted_avg_lt ==
            IF action = "supply"
            THEN SupplyNewWeightedAvgLt(total_collateral_base, weighted_avg_lt,
                                        token_value_base, token_lt)
            ELSE weighted_avg_lt
        hf_after == HfAfter(new_total_collateral, new_weighted_avg_lt, new_total_debt)
        hf_after_est == CapAndRound(hf_after)
        inputs ==
            [total_collateral_base |-> total_collateral_base,
             total_debt_base |-> total_debt_base,
             available_borrows_base |-> available_borrows_base,
             weighted_avg_lt |-> weighted_avg_lt,
             token_lt |-> token_lt,
             token_price |-> token_price,
             token_value_base |-> token_value_base]
    IN  IF action = "borrow" /\ InsufficientCapacity(token_value_base, available_borrows_base)
        THEN [resp |->
                 [status |-> 200, error |-> "none", action |-> action, token |-> token,
                  amount |-> amount, network |-> r.network,
                  health_factor_before |-> hf_before,
                  health_factor_after_est |-> 0,
                  safety |-> "insufficient capacity",
                  available_borrows |-> available_borrows_base,
                  current_capacity_check |-> "insufficient",
                  note |-> "insufficient borrowing capacity",
                  calc |-> inputs],
              steps |-> reads \o <<"capacity_check">>]
        ELSE [resp |->
                 [status |-> 200, error |-> "none", action |-> action, token |-> token,
                  amount |-> amount, network |-> r.network,
                  health_factor_before |-> hf_before,
                  health_factor_after_est |-> hf_after_est,
                  safety |-> Safety(hf_after_est),
                  token_data |-> [price_usd |-> token_price, ltv |-> token_ltv,
                                  liquidation_threshold |-> token_lt],
                  note |-> "dry-run only",
                  calc |-> [new_total_collateral |-> new_total_collateral,
                            new_total_debt |-> new_total_debt,
                            new_weighted_avg_lt |-> new_weighted_avg_lt,
                            hf_after |-> hf_after] @@ inputs],
              steps |-> reads
                 \o (IF action = "borrow" THEN <<"capacity_check">> ELSE << >>)
                 \o (IF action = "supply" /\ new_total_collateral > 0
                     THEN <<"lt_division">> ELSE << >>)
                 \o (IF new_total_debt # 0 THEN <<"hf_formula">> ELSE << >>)
                 \o <<"cap_round", "classify", "schedule_log">>]

(***************************************************************************)
(* utils.py, contracts.py and routes.py: the transaction-building handlers *)
(* POST /supply, /borrow, /repay, GET /health and GET /gas/estimate.       *)
(* token amounts are in the token's smallest unit ("wei"), gas prices in   *)
(* wei per gas.                                                            *)
(***************************************************************************)
TxAmounts == -MaxAmount..MaxAmount

TxRequests(endpoint) ==
    [endpoint : {endpoint}, network : RequestNetworks, token : RequestTokens,
     amount : TxAmounts, user_ok : BOOLEAN]

HealthRequests == [endpoint : {"health"}, network : RequestNetworks, user_ok : BOOLEAN]

GasRequests ==
    [endpoint : {"gas_estimate"}, network : RequestNetworks, token : RequestTokens,
     amount : TxAmounts]

BalanceRequests == [endpoint : {"balance"}, network : RequestNetworks, user_ok : BOOLEAN]

\* balanceOf, in base units
BalanceReads == {Raised, Returned(260)}

\* the three balanceOf calls of every asset of the network, each with its own
\* outcome
TokenReads(key) ==
    IF key \in ConfiguredNetworks
    THEN [Assets(key) -> [underlying : BalanceReads, aToken : BalanceReads,
                          vToken : BalanceReads]]
    ELSE {<< >>}

ExecuteRequests == [endpoint : {"execute_transaction"}, network : RequestNetworks]

\* what the chain answers the reads of one request
SendReads == {Raised, Returned("0xhash")}
ReceiptReads == {Raised, Returned(0), Returned(1)}
HealthFactorReads == {Raised} \cup {Returned(raw) : raw \in {0, 5000, 10994, 10996, 11000, 16000}}
AllowanceReads == {Raised, Returned(0), Returned(Pow10(9))}

\* the total debt of the user /health is asked about, in base currency
HealthDebts == {0, 5000}

\* the health factor the pool reports for an account without debt is
\* type(uint256).max, which is beyond the integers of the model; the largest
\* raw health factor of the model, 999.0, stands in for it
NoDebtHealthFactor == 999 * 10000

\* what getUserAccountData answers /health for a user of that total debt; 0
\* is the value get_health_factor itself provides for
HealthAccountReads(totalDebtBase) ==
    IF totalDebtBase = 0
    THEN {Raised, Returned(0), Returned(NoDebtHealthFactor)}
    ELSE HealthFactorReads
NonceReads == {Raised, Returned(0), Returned(5)}
GasPriceReads == {Raised, Returned(2)}
GasEstimateReads == {Raised, Returned(150000)}

\* get_health_factor with 0.0 for a read that raises
GetHealthFactorOrZero(read) ==
    IF read.ok THEN HfBefore(read.v) ELSE 0

\* utils.get_health_factor: thousandths; 100.0 when the read raises
get_health_factor(read) ==
    IF read.ok THEN HfBefore(read.v) ELSE 100000

\* the pre-flight check of /borrow: hf < 1.1
BorrowBlocked(hf) == hf < 1100

\* utils.amount_to_wei
amount_to_wei(amount, token_symbol) == amount * Pow10(AssetDecimals(token_symbol))

\* the amounts m / 10^k, among those with m <= 7 and k <= 9, whose float
\* product with 10**decimals falls just below the whole number it stands
\* for: 0.0003 * 10**8 = 29999.999999999996, and likewise 0.0006, 0.00007,
\* 0.00000003 and 0.00000006 with 8 decimals
FloatProductFallsShort(m, k, decimals) ==
    <<m, k, decimals>> \in {<<3, 4, 8>>, <<6, 4, 8>>, <<7, 5, 8>>, <<3, 8, 8>>, <<6, 8, 8>>}

\* utils.amount_to_wei on a fractional amount m / 10^k: int() truncates the
\* float product amount * 10**decimals
AmountToWeiOutcomes(m, k, decimals) ==
    IF k <= decimals
    THEN LET n == m * Pow10(decimals - k)
         IN  IF FloatProductFallsShort(m, k, decimals) THEN {n - 1} ELSE {n}
    ELSE {m \div Pow10(k - decimals)}

\* utils.format_token_amount: round(amount_wei / 10**decimals, 6), in
\* millionths of a token; a quotient that lies exactly between two
\* millionths goes either way, as its float lies on either side
FormatOutcomes(amount_wei, decimals) ==
    IF decimals <= 6 THEN {amount_wei * Pow10(6 - decimals)}
    ELSE LET unit == Pow10(decimals - 6)
             q == amount_wei \div unit
             r == amount_wei % unit
         IN  IF 2 * r < unit THEN {q}
             ELSE IF 2 * r > unit THEN {q + 1}
             ELSE {q, q + 1}

\* the decimal counts of the configured assets that base-unit amounts of
\* this size can carry
ConvertDecimals == {AssetDecimals(sym) : sym \in {"EURS", "USDC", "WBTC"}}

ConvertInputs ==
    [endpoint : {"convert"}, m : 0..MaxMantissa, k : 1..MaxPlaces, decimals : ConvertDecimals]

\* utils.estimate_gas_cost, in wei: 0.0 when the gas price read raises
estimate_gas_cost(gas_limit, gasPrice) ==
    IF gasPrice.ok THEN gas_limit * gasPrice.v ELSE 0

NoApproval == [present |-> FALSE]

\* utils.build_approval_transaction over utils.build_transaction
build_approval_transaction(token, amount, nonce) ==
    [present |-> TRUE, to |-> token, spender |-> "pool", amount |-> amount,
     gas |-> 50000, nonce |-> nonce]

\* contracts.build_pool_transaction: the provider is asked for the pool and
\* the call is encoded (a uint256 argument cannot be negative); gas is 0
build_pool_transaction(function_name, token, amount_wei, poolOk) ==
    IF ~poolOk THEN [ok |-> FALSE, steps |-> <<"getPool">>]
    ELSE IF amount_wei < 0 THEN [ok |-> FALSE, steps |-> <<"getPool", "build_transaction">>]
    ELSE [ok |-> TRUE, steps |-> <<"getPool", "build_transaction">>,
          tx_data |-> [to |-> "pool", fn |-> function_name, asset |-> token,
                       amount |-> amount_wei, gas |-> 0, value |-> 0]]

\* "Complete transaction" to the response, common to /supply, /borrow, /repay
CompleteTransaction(tx_data, nonce, gasPrice, approval, before) ==
    IF ~nonce.ok
    THEN [resp |-> Error(500, "UpstreamUnavailable"),
          steps |-> before \o <<"get_transaction_count">>]
    ELSE [resp |-> [status |-> 200, error |-> "none", state |-> "ready_for_signing",
                    transaction |-> [to |-> tx_data.to, fn |-> tx_data.fn,
                                     asset |-> tx_data.asset, amount |-> tx_data.amount,
                                     nonce |-> nonce.v, gas |-> tx_data.gas,
                                     value |-> tx_data.value],
                    approval_transaction |-> approval,
                    gas_cost |-> estimate_gas_cost(tx_data.gas, gasPrice)],
          steps |-> before \o <<"get_transaction_count", "gas_price", "schedule_log">>]

\* the responses of /borrow and /repay carry no approval_transaction key
WithoutApproval(out) ==
    IF out.resp.status # 200 THEN out
    ELSE [resp |-> [f \in DOMAIN out.resp \ {"approval_transaction"} |-> out.resp[f]],
          steps |-> out.steps]

\* init_web3 and the token check that open /supply, /borrow, /repay and
\* /gas/estimate; the handler's except turns the 400 into a 500
TokenCheck(r) ==
    IF NetworkKey(r.network) \notin ConfiguredNetworks
    THEN Error(500, "UnsupportedNetwork")
    ELSE IF Upper(r.token) \notin Assets(NetworkKey(r.network))
    THEN Error(500, "UnsupportedAsset")
    ELSE NoResponse

Stop(response, calls) == [resp |-> response, steps |-> calls]

\* POST /supply
SupplyHandler(r, poolOk, allowance, nonce, gasPrice) ==
    LET token == Upper(r.token)
        amount_wei == amount_to_wei(r.amount, token)
        current_allowance == IF allowance.ok THEN allowance.v ELSE 0
        needs_approval == current_allowance < amount_wei
        built == build_pool_transaction("supply", token, amount_wei, poolOk)
        upto_allowance == <<"getPool", "allowance">>
        upto_approval ==
            IF needs_approval THEN upto_allowance \o <<"get_transaction_count">>
            ELSE upto_allowance
    IN  IF TokenCheck(r).status # 0 THEN Stop(TokenCheck(r), << >>)
        ELSE IF ~r.user_ok THEN Stop(Error(500, "InvalidAddress"), << >>)
        ELSE IF ~poolOk THEN Stop(Error(500, "UpstreamUnavailable"), <<"getPool">>)
        ELSE IF needs_approval /\ ~nonce.ok
        THEN Stop(Error(500, "UpstreamUnavailable"), upto_approval)
        ELSE IF ~built.ok
        THEN Stop(Error(500, "EncodingFailed"), upto_approval \o built.steps)
        ELSE CompleteTransaction(
                 built.tx_data, nonce, gasPrice,
                 IF needs_approval
                 THEN build_approval_transaction(token, amount_wei, nonce.v)
                 ELSE NoApproval,
                 upto_approval \o built.steps)

\* POST /build/transaction: the steps of /supply, answered as a
\* TransactionResponse
BuildTransactionHandler(r, poolOk, allowance, nonce, gasPrice) ==
    LET out == SupplyHandler(r, poolOk, allowance, nonce, gasPrice)
    IN  IF out.resp.status # 200 THEN out
        ELSE [resp |-> [status |-> 200, error |-> "none", state |-> "ready",
                        transaction |-> out.resp.transaction,
                        gas_estimate |-> out.resp.transaction.gas,
                        estimated_gas_cost |-> out.resp.gas_cost,
                        approval_transaction |-> out.resp.approval_transaction],
              steps |-> out.steps]

\* POST /borrow
BorrowHandler(r, poolOk, hfRead, nonce, gasPrice) ==
    LET token == Upper(r.token)
        hf == get_health_factor(hfRead)
        amount_wei == amount_to_wei(r.amount, token)
        built == build_pool_transaction("borrow", token, amount_wei, poolOk)
        upto_hf == <<"getPool", "getUserAccountData">>
        done == WithoutApproval(
                    CompleteTransaction(built.tx_data, nonce, gasPrice, NoApproval,
                                        upto_hf \o built.steps))
    IN  IF TokenCheck(r).status # 0 THEN Stop(TokenCheck(r), << >>)
        ELSE IF ~poolOk THEN Stop(Error(500, "UpstreamUnavailable"), <<"getPool">>)
        ELSE IF ~r.user_ok THEN Stop(Error(500, "InvalidAddress"), <<"getPool">>)
        ELSE IF BorrowBlocked(hf)
        THEN Stop(Error(500, "BorrowBlocked"), upto_hf \o <<"schedule_log">>)
        ELSE IF ~built.ok
        THEN Stop(Error(500, "EncodingFailed"), upto_hf \o built.steps)
        ELSE IF done.resp.status # 200 THEN done
        ELSE [resp |-> [f \in DOMAIN done.resp \cup {"health_factor_before"} |->
                           IF f = "health_factor_before" THEN hf ELSE done.resp[f]],
              steps |-> done.steps]

\* POST /repay
RepayHandler(r, poolOk, nonce, gasPrice) ==
    LET token == Upper(r.token)
        amount_wei == amount_to_wei(r.amount, token)
        built == build_pool_transaction("repay", token, amount_wei, poolOk)
    IN  IF TokenCheck(r).status # 0 THEN Stop(TokenCheck(r), << >>)
        ELSE IF ~r.user_ok THEN Stop(Error(500, "InvalidAddress"), << >>)
        ELSE IF ~built.ok
        THEN Stop(Error(500, IF poolOk THEN "EncodingFailed" ELSE "UpstreamUnavailable"),
                  built.steps)
        ELSE WithoutApproval(
                 CompleteTransaction(built.tx_data, nonce, gasPrice, NoApproval, built.steps))

\* /execute/transaction answering success whatever the status of the receipt
ExecuteIgnoringStatus(r, sent, receipt) ==
    LET upto_receipt == <<"send_raw_transaction", "wait_for_transaction_receipt">>
    IN  IF NetworkKey(r.network) \notin ConfiguredNetworks
        THEN [resp |-> Error(500, "UnsupportedNetwork"), steps |-> << >>]
        ELSE IF ~sent.ok
        THEN [resp |-> Error(500, "UpstreamUnavailable"),
              steps |-> <<"send_raw_transaction">>]
        ELSE IF ~receipt.ok
        THEN [resp |-> Error(500, "UpstreamUnavailable"), steps |-> upto_receipt]
        ELSE [resp |-> [status |-> 200, error |-> "none", state |-> "success",
                        tx_hash |-> sent.v],
              steps |-> upto_receipt \o <<"schedule_log">>]

\* POST /execute/transaction: every exception, the HTTPException of an
\* unsupported network and of a failed transaction included, becomes a 500
ExecuteTransactionHandler(r, sent, receipt) ==
    LET upto_receipt == <<"send_raw_transaction", "wait_for_transaction_receipt">>
    IN  IF NetworkKey(r.network) \notin ConfiguredNetworks
        THEN Stop(Error(500, "UnsupportedNetwork"), << >>)
        ELSE IF ~sent.ok
        THEN Stop(Error(500, "UpstreamUnavailable"), <<"send_raw_transaction">>)
        ELSE IF ~receipt.ok THEN Stop(Error(500, "UpstreamUnavailable"), upto_receipt)
        ELSE IF receipt.v = 1
        THEN Stop([status |-> 200, error |-> "none", state |-> "success",
                   tx_hash |-> sent.v],
                  upto_receipt \o <<"schedule_log">>)
        ELSE Stop(Error(500, "TransactionFailed"), upto_receipt \o <<"schedule_log">>)

\* format_token_amount is imported inside the handler, in the try block of
\* the underlying balance and after its balanceOf call: the name is local to
\* the handler and is bound once the underlying read of the i-th asset or of
\* an earlier one has returned
FormatImported(assets, reads, i) ==
    \E j \in 1..i : reads[assets[j]].underlying.ok

\* GET /balance/{network}/{user}: a read that raises counts as 0, and so does
\* a read formatted while format_token_amount is unbound; the balances are in
\* millionths of a token, and the base units of the model round to 0.0 for a
\* token of 18 decimals
BalanceHandler(r, reads) ==
    LET key == NetworkKey(r.network)
        assets == NETWORK_CONFIG(key).assets
        held(sym, read) ==
            IF ~read.ok \/ AssetDecimals(sym) > 15 THEN 0
            ELSE CHOOSE amount \in FormatOutcomes(read.v, AssetDecimals(sym)) : TRUE
        later(i, read) ==
            IF FormatImported(assets, reads, i) THEN held(assets[i], read) ELSE 0
        token(i) ==
            [underlying |-> held(assets[i], reads[assets[i]].underlying),
             aToken |-> later(i, reads[assets[i]].aToken),
             vToken |-> later(i, reads[assets[i]].vToken)]
        tokens == [sym \in Assets(key) |->
                      token(CHOOSE i \in DOMAIN assets : assets[i] = sym)]
        calls == [i \in 1..(3 * Len(assets)) |-> "balanceOf"]
    IN  IF key \notin ConfiguredNetworks
        THEN Stop(Error(400, "UnsupportedNetwork"), << >>)
        ELSE IF ~r.user_ok THEN Stop(Error(500, "InvalidAddress"), << >>)
        ELSE Stop([status |-> 200, error |-> "none", network |-> r.network,
                   tokens |-> tokens],
                  calls)

\* GET /health/{network}/{user}
HealthHandler(r, poolOk, hfRead) ==
    LET hf == get_health_factor(hfRead)
    IN  IF NetworkKey(r.network) \notin ConfiguredNetworks
        THEN Stop(Error(400, "UnsupportedNetwork"), << >>)
        ELSE IF ~poolOk THEN Stop(Error(500, "UpstreamUnavailable"), <<"getPool">>)
        ELSE IF ~r.user_ok THEN Stop(Error(500, "InvalidAddress"), <<"getPool">>)
        ELSE Stop([status |-> 200, error |-> "none", health_factor |-> hf,
                   safe_to_borrow |-> (hf >= 1100)],
                  <<"getPool", "getUserAccountData">>)

\* GET /gas/estimate/{network}/{token}/{amount}
GasEstimateHandler(r, poolOk, gasRead, gasPrice) ==
    LET token_symbol == Upper(r.token)
        amount_wei == amount_to_wei(r.amount, token_symbol)
        built == build_pool_transaction("supply", token_symbol, amount_wei, poolOk)
        estimated == built.ok /\ gasRead.ok
        gas_estimate == IF estimated THEN gasRead.v ELSE 300000
        approval_gas == 50000
        calls == built.steps \o
                 (IF built.ok THEN <<"getPool", "estimate_gas">> ELSE << >>) \o
                 <<"gas_price", "gas_price">>
    IN  IF TokenCheck(r).status # 0 THEN Stop(TokenCheck(r), << >>)
        ELSE IF ~gasPrice.ok
        THEN Stop(Error(500, "UpstreamUnavailable"), calls \o <<"gas_price">>)
        ELSE Stop([status |-> 200, error |-> "none", token |-> token_symbol,
                   amount |-> r.amount,
                   supply_gas_estimate |-> gas_estimate,
                   supply_gas_cost |-> estimate_gas_cost(gas_estimate, gasPrice),
                   approval_gas_estimate |-> approval_gas,
                   approval_gas_cost |-> estimate_gas_cost(approval_gas, gasPrice),
                   total_gas_estimate |-> gas_estimate + approval_gas,
                   needs_approval |-> (approval_gas > 0),
                   gas_price |-> gasPrice.v],
                  calls \o <<"gas_price">>)

(***************************************************************************)
(* routes.py: the price cache and GET /prices/{network}                    *)
(***************************************************************************)
CacheDuration == 60

\* the instants at which requests arrive: every minute and a second before it
Instants == {t \in {k * CacheDuration - j : k \in 0..MaxMinutes, j \in {0, 1}} : t >= 0}

PricesNetworks == {"base-sepolia", "Base Sepolia", "custom-net", "unknown-net"}

FailedPrice == [price |-> Raised, config |-> LiveRead.config]
FailedConfig == [price |-> LiveRead.price, config |-> Raised]

\* what the chain answers one fetch: every read succeeds, or the price read
\* or the configuration read of one asset raises
FetchReads(key) ==
    {[sym \in Assets(key) |-> LiveRead]} \cup
    {[sym \in Assets(key) |-> IF sym = bad THEN r ELSE LiveRead] :
        bad \in Assets(key), r \in {FailedPrice, FailedConfig}}

\* one cache entry shared by every network
SharedCacheKey(network) == "base-sepolia"

\* cache_key = f"{network}_realtime_data": one key per network string
CacheKey(network) == network

\* a cache entry that is valid one second longer
CacheValidInclusive(cache_key) ==
    /\ cacheData[cache_key].present
    /\ cacheTime[cache_key].present
    /\ now - cacheTime[cache_key].t <= CacheDuration

\* get_cached_real_time_data: "we have valid cached data"
CacheValid(cache_key) ==
    /\ cacheData[cache_key].present
    /\ cacheTime[cache_key].present
    /\ now - cacheTime[cache_key].t < CacheDuration

\* get_real_time_prices, after get_cached_real_time_data returned
PricesResponse(network, real_time_data, timestamp) ==
    IF real_time_data = << >>
    THEN Error(500, "UpstreamUnavailable")
    ELSE [status |-> 200, error |-> "none", network |-> network,
          timestamp |-> timestamp, prices |-> real_time_data]

PricesRequest(network) == [endpoint |-> "prices", network |-> network]

(***************************************************************************)
(* main.py: the executor-signing variant.  The server holds the executor's *)
(* key and sends the transactions itself.  The asset is a token of 6       *)
(* decimals; amounts are whole tokens, balances and allowances base units. *)
(***************************************************************************)
ExecutorDecimals == 6

SupplyRequests ==
    [endpoint : {"execute_supply"}, amount : -1..MaxAmount, user_ok : BOOLEAN]

\* what the chain answers before any transaction is built
HeadReads ==
    [decimals : {Raised, Returned(ExecutorDecimals)},
     balance : {Raised, Returned(2 * Pow10(ExecutorDecimals)), Returned(Pow10(9))},
     nonce : {Raised, Returned(0), Returned(7)},
     allowance : {Raised, Returned(Pow10(ExecutorDecimals)), Returned(Pow10(9))}]

\* what the chain and the log sink answer from the first gas price on
TailReads ==
    [approveGasPrice : {Raised, Returned(1)}, approveSend : SendReads,
     approveReceipt : ReceiptReads, estimate : {Raised, Returned(210000)},
     supplyGasPrice : {Raised, Returned(1)}, supplySend : SendReads,
     supplyReceipt : ReceiptReads, logged : {"delivered", "failed", "raised"}]

NoTail ==
    [approveGasPrice |-> Raised, approveSend |-> Raised, approveReceipt |-> Raised,
     estimate |-> Raised, supplyGasPrice |-> Raised, supplySend |-> Raised,
     supplyReceipt |-> Raised, logged |-> "failed"]

\* _send_and_wait: send_raw_transaction, then wait_for_transaction_receipt;
\* either may raise
send_and_wait(tx, send, receipt) ==
    IF ~send.ok
    THEN [ok |-> FALSE, steps |-> <<"send_raw_transaction">>, sent |-> << >>,
          waited |-> FALSE]
    ELSE IF ~receipt.ok
    THEN [ok |-> FALSE, steps |-> <<"send_raw_transaction", "wait_for_transaction_receipt">>,
          sent |-> <<tx>>, waited |-> TRUE]
    ELSE [ok |-> TRUE, steps |-> <<"send_raw_transaction", "wait_for_transaction_receipt">>,
          sent |-> <<tx>>, waited |-> TRUE, tx_hash |-> send.v, status |-> receipt.v]

\* _safe_approve_if_needed, as far as the nonce it hands back
Approval(rd, required_amount, nonce, next_nonce) ==
    LET approve_tx == [fn |-> "approve", amount |-> required_amount, nonce |-> nonce,
                       gas |-> 100000]
        waited == send_and_wait(approve_tx, rd.approveSend, rd.approveReceipt)
    IN  IF ~rd.allowance.ok
        THEN [ok |-> FALSE, steps |-> <<"allowance">>, sent |-> << >>,
              used |-> {"allowance"}]
        ELSE IF rd.allowance.v >= required_amount
        THEN [ok |-> TRUE, steps |-> <<"allowance">>, sent |-> << >>,
              used |-> {"allowance"}, nonce |-> nonce]
        ELSE IF ~rd.approveGasPrice.ok
        THEN [ok |-> FALSE, steps |-> <<"allowance", "gas_price">>, sent |-> << >>,
              used |-> {"allowance", "approveGasPrice"}]
        ELSE [ok |-> waited.ok /\ waited.status = 1,
              steps |-> <<"allowance", "gas_price">> \o waited.steps,
              sent |-> waited.sent,
              used |-> {"allowance", "approveGasPrice", "approveSend"} \cup
                       (IF waited.waited THEN {"approveReceipt"} ELSE {}),
              nonce |-> next_nonce]

\* an approval that hands back the nonce it was given
ApproveKeepingNonce(rd, required_amount, nonce) ==
    Approval(rd, required_amount, nonce, nonce)

\* _safe_approve_if_needed: the nonce to use next, or an exception
safe_approve_if_needed(rd, required_amount, nonce) ==
    Approval(rd, required_amount, nonce, nonce + 1)

\* the dict execute_supply returns
SupplyError(message) == [status |-> "error", message |-> message]

Gave(response, calls, sent, used, logged) ==
    [resp |-> response, steps |-> calls, sent |-> sent, used |-> used, log |-> logged]

\* execute_supply: every exception becomes the dict of a "Supply error"; a
\* negative amount cannot be encoded as uint256, so building its
\* transaction raises; log_to_hedera catches the exceptions of requests
\* only, so anything else it raises ends in the except of execute_supply
execute_supply(r, rd) ==
    LET amount_in_wei == r.amount * Pow10(ExecutorDecimals)
        upto_balance == <<"decimals", "balanceOf">>
        upto_nonce == upto_balance \o <<"get_transaction_count">>
        approved == safe_approve_if_needed(rd, amount_in_wei, rd.nonce.v)
        upto_approve == upto_nonce \o approved.steps
        upto_estimate == upto_approve \o <<"debug_call", "estimate_gas">>
        gas_estimate == IF rd.estimate.ok /\ amount_in_wei >= 0 THEN rd.estimate.v ELSE 300000
        supply_tx == [fn |-> "supply", amount |-> amount_in_wei, nonce |-> approved.nonce,
                      gas |-> gas_estimate]
        waited == send_and_wait(supply_tx, rd.supplySend, rd.supplyReceipt)
        upto_supply == upto_estimate \o <<"gas_price">> \o waited.steps
        sent == approved.sent \o waited.sent
        read_balance == {"decimals", "balance"}
        read_nonce == read_balance \cup {"nonce"}
        read_approve == read_nonce \cup approved.used
        read_estimate == read_approve \cup {"estimate"}
        read_price == read_estimate \cup {"supplyGasPrice"}
        read_supply == read_price \cup {"supplySend"} \cup
                       (IF waited.waited THEN {"supplyReceipt"} ELSE {})
    IN  IF ~r.user_ok THEN Gave(SupplyError("Supply error"), << >>, << >>, {}, "none")
        ELSE IF ~rd.decimals.ok
        THEN Gave(SupplyError("Supply error"), <<"decimals">>, << >>, {"decimals"}, "none")
        ELSE IF ~rd.balance.ok
        THEN Gave(SupplyError("Supply error"), upto_balance, << >>, read_balance, "none")
        ELSE IF rd.balance.v < amount_in_wei
        THEN Gave(SupplyError("Executor insufficient balance"), upto_balance, << >>,
                  read_balance, "none")
        ELSE IF ~rd.nonce.ok
        THEN Gave(SupplyError("Supply error"), upto_nonce, << >>, read_nonce, "none")
        ELSE IF ~approved.ok
        THEN Gave(SupplyError("Supply error"), upto_approve, approved.sent, read_approve,
                  "none")
        ELSE IF amount_in_wei < 0
        THEN Gave(SupplyError("Supply error"), upto_estimate, approved.sent, read_estimate,
                  "none")
        ELSE IF ~rd.supplyGasPrice.ok
        THEN Gave(SupplyError("Supply error"), upto_estimate \o <<"gas_price">>,
                  approved.sent, read_price, "none")
        ELSE IF ~waited.ok
        THEN Gave(SupplyError("Supply error"), upto_supply, sent, read_supply, "none")
        ELSE IF waited.status # 1
        THEN Gave(SupplyError("Supply transaction reverted"), upto_supply, sent,
                  read_supply, "none")
        ELSE IF rd.logged = "raised"
        THEN Gave(SupplyError("Supply error"), upto_supply \o <<"log_to_hedera">>,
                  sent, read_supply, rd.logged)
        ELSE Gave([status |-> "success", message |-> "Supply OK", tx_hash |-> waited.tx_hash],
                  upto_supply \o <<"log_to_hedera">>, sent, read_supply, rd.logged)

\* the answers the call consumed and the transactions it sent, in order
ExecutorReads(out, rd) ==
    [getUserAccountData |-> "none", sent |-> out.sent,
     read |-> [name \in out.used |-> rd[name]]]

(***************************************************************************)
(* The state machine.                                                      *)
(***************************************************************************)
NoEntry == [present |-> FALSE]

\* the concurrent /prices requests, all for one network, each waiting for the
\* event loop to run its handler
Requests == {1, 2}
FlightNetwork == "base-sepolia"
Waiting == [pc |-> "waiting"]
NoFlight == [running |-> 0, of |-> [p \in Requests |-> Waiting]]

Init ==
    /\ phase = "idle"
    /\ req = NoRequest
    /\ resp = NoResponse
    /\ steps = << >>
    /\ chain = NoReads
    /\ now = 0
    /\ cacheData = [n \in RequestNetworks |-> NoEntry]
    /\ cacheTime = [n \in RequestNetworks |-> NoEntry]
    /\ log = "none"
    /\ flight = NoFlight

\* the handler has answered r; read is what getUserAccountData or allowance
\* answered, if the handler got as far as calling one of them
\* schedule_log that waits for the delivery and fails with it
AwaitLog(out) ==
    {[resp |-> out.resp, log |-> "delivered"],
     [resp |-> Error(500, "UpstreamUnavailable"), log |-> "failed"]}

ChainAfter(out, read) ==
    IF Contains(out.steps, "getUserAccountData") THEN AccountRead(read)
    ELSE IF Contains(out.steps, "allowance") THEN AllowanceRead(read)
    ELSE NoReads

\* utils.schedule_log inside a handler: create_task hands log_to_hedera to
\* the event loop and returns
schedule_log(out) == {[resp |-> out.resp, log |-> "scheduled"]}

LogAfter(out) ==
    IF Contains(out.steps, "schedule_log") THEN schedule_log(out)
    ELSE {[resp |-> out.resp, log |-> "none"]}

RespondWith(r, out, chainAfter) ==
    /\ phase' = "done"
    /\ req' = r
    /\ \E o \in LogAfter(out) : resp' = o.resp /\ log' = o.log
    /\ steps' = out.steps
    /\ chain' = chainAfter
    /\ UNCHANGED <<now, cacheData, cacheTime, flight>>

Respond(r, out, read) == RespondWith(r, out, ChainAfter(out, read))

Simulate ==
    /\ phase = "idle"
    /\ \E r \in SimRequests, poolOk \in BOOLEAN :
          LET pre == SimulatePrologue(r, poolOk)
          IN  IF pre.resp.status # 0
              THEN Respond(r, pre, Raised)
              ELSE \E acct \in {Raised} \cup {Returned(a) : a \in SimAccounts} :
                      IF ~acct.ok
                      THEN Respond(r, [resp |-> Error(500, "UpstreamUnavailable"),
                                       steps |-> <<"getPool", "getUserAccountData">>],
                               Raised)
                      ELSE \E c \in ConfigReads, p \in PriceReads :
                              RespondWith(r, SimulateBody(r, acct.v, c, p),
                                          SimulateReads(acct.v, c))

Supply ==
    /\ phase = "idle"
    /\ \E r \in TxRequests("supply") :
          IF TokenCheck(r).status # 0 \/ ~r.user_ok
          THEN Respond(r, SupplyHandler(r, TRUE, Raised, Raised, Raised), Raised)
          ELSE \E poolOk \in BOOLEAN, allowance \in AllowanceReads,
                  nonce \in NonceReads, gasPrice \in GasPriceReads :
                  Respond(r, SupplyHandler(r, poolOk, allowance, nonce, gasPrice), allowance)

BuildTransaction ==
    /\ phase = "idle"
    /\ \E r \in TxRequests("build_transaction") :
          IF TokenCheck(r).status # 0 \/ ~r.user_ok
          THEN Respond(r, BuildTransactionHandler(r, TRUE, Raised, Raised, Raised), Raised)
          ELSE \E poolOk \in BOOLEAN, allowance \in AllowanceReads,
                  nonce \in NonceReads, gasPrice \in GasPriceReads :
                  Respond(r, BuildTransactionHandler(r, poolOk, allowance, nonce, gasPrice),
                          allowance)

Borrow ==
    /\ phase = "idle"
    /\ \E r \in TxRequests("borrow") :
          IF TokenCheck(r).status # 0
          THEN Respond(r, BorrowHandler(r, TRUE, Raised, Raised, Raised), Raised)
          ELSE \E poolOk \in BOOLEAN, hfRead \in HealthFactorReads,
                  nonce \in NonceReads, gasPrice \in GasPriceReads :
                  Respond(r, BorrowHandler(r, poolOk, hfRead, nonce, gasPrice), hfRead)

Repay ==
    /\ phase = "idle"
    /\ \E r \in TxRequests("repay") :
          IF TokenCheck(r).status # 0 \/ ~r.user_ok
          THEN Respond(r, RepayHandler(r, TRUE, Raised, Raised), Raised)
          ELSE \E poolOk \in BOOLEAN, nonce \in NonceReads, gasPrice \in GasPriceReads :
                  Respond(r, RepayHandler(r, poolOk, nonce, gasPrice), Raised)

Health ==
    /\ phase = "idle"
    /\ \E r \in HealthRequests, poolOk \in BOOLEAN, totalDebtBase \in HealthDebts :
          \E hfRead \in HealthAccountReads(totalDebtBase) :
             LET out == HealthHandler(r, poolOk, hfRead)
             IN  RespondWith(r, out,
                             ChainAfter(out, hfRead) @@ [totalDebtBase |-> totalDebtBase])

Balance ==
    /\ phase = "idle"
    /\ \E r \in BalanceRequests :
          \E reads \in TokenReads(NetworkKey(r.network)) :
             LET out == BalanceHandler(r, reads)
             IN  RespondWith(r, out, BalanceOfReads(out, reads))

ExecuteTransaction ==
    /\ phase = "idle"
    /\ \E r \in ExecuteRequests, sent \in SendReads, receipt \in ReceiptReads :
          LET out == ExecuteTransactionHandler(r, sent, receipt)
          IN  RespondWith(r, out, ExecuteReads(out, sent, receipt))

GasEstimate ==
    /\ phase = "idle"
    /\ \E r \in GasRequests :
          IF TokenCheck(r).status # 0
          THEN Respond(r, GasEstimateHandler(r, TRUE, Raised, Raised), Raised)
          ELSE \E poolOk \in BOOLEAN, gasRead \in GasEstimateReads,
                  gasPrice \in GasPriceReads :
                  Respond(r, GasEstimateHandler(r, poolOk, gasRead, gasPrice), Raised)

Prices ==
    /\ phase = "idle"
    /\ \E network \in PricesNetworks :
          /\ phase' = "done"
          /\ req' = PricesRequest(network)
          /\ now' = now
          /\ log' = log
          /\ flight' = flight
          /\ IF NetworkKey(network) \notin ConfiguredNetworks
             THEN /\ resp' = Error(500, "UnsupportedNetwork")
                  /\ steps' = << >>
                  /\ chain' = NoReads
                  /\ UNCHANGED <<cacheData, cacheTime>>
             ELSE IF CacheValid(CacheKey(network))
             THEN /\ resp' = PricesResponse(network, cacheData[CacheKey(network)].data,
                                            cacheTime[CacheKey(network)].t)
                  /\ steps' = << >>
                  /\ chain' = NoReads
                  /\ UNCHANGED <<cacheData, cacheTime>>
             ELSE \E reads \in FetchReads(NetworkKey(network)) :
                     LET fresh_data ==
                             get_all_real_time_asset_data(NetworkKey(network), reads)
                     IN  /\ cacheData' = [cacheData EXCEPT
                                             ![CacheKey(network)] = [present |-> TRUE, data |-> fresh_data]]
                         /\ cacheTime' = [cacheTime EXCEPT
                                             ![CacheKey(network)] = [present |-> TRUE, t |-> now]]
                         /\ resp' = PricesResponse(network, fresh_data, now)
                         /\ steps' = FetchCalls(NetworkKey(network))
                         /\ chain' = FetchRead(NetworkKey(network), reads)

\* POST /supply of the executor-signing variant: execute_supply from its
\* first line to the dict it returns
ExecuteSupply ==
    /\ phase = "idle"
    /\ \E r \in SupplyRequests, head \in HeadReads :
          LET Answer(out, rd) ==
                  /\ phase' = "done"
                  /\ req' = r
                  /\ resp' = out.resp
                  /\ steps' = out.steps
                  /\ chain' = ExecutorReads(out, rd)
                  /\ log' = out.log
                  /\ UNCHANGED <<now, cacheData, cacheTime, flight>>
              begun == execute_supply(r, head @@ NoTail)
          IN  IF ~Contains(begun.steps, "allowance") \/ ~head.allowance.ok
              THEN Answer(begun, head @@ NoTail)
              ELSE \E tail \in TailReads :
                      Answer(execute_supply(r, head @@ tail), head @@ tail)

\* time passes between requests
Tick ==
    /\ phase = "idle"
    /\ \E t \in Instants : t > now /\ now' = t
    /\ UNCHANGED <<phase, req, resp, steps, chain, cacheData, cacheTime, log, flight>>

\* the log_to_hedera task of the answered request runs: the post reaches the
\* sink, or it raises or times out and the task prints a warning
LogToHedera ==
    /\ log = "scheduled"
    /\ \E outcome \in {"delivered", "failed"} : log' = outcome
    /\ UNCHANGED <<phase, req, resp, steps, chain, now, cacheData, cacheTime, flight>>

\* the server waits for the next request
NextRequest ==
    /\ phase = "done"
    /\ phase' = "idle"
    /\ req' = NoRequest
    /\ resp' = NoResponse
    /\ steps' = << >>
    /\ chain' = NoReads
    /\ log' = "none"
    /\ UNCHANGED <<now, cacheData, cacheTime, flight>>

Next ==
    \/ Simulate
    \/ Supply
    \/ BuildTransaction
    \/ Borrow
    \/ Repay
    \/ Health
    \/ GasEstimate
    \/ Balance
    \/ ExecuteTransaction
    \/ LogToHedera
    \/ NextRequest

Spec == Init /\ [][Next]_vars

\* every statement of the handler gives the event loop the chance to run
\* another handler
YieldsEverywhere(pc) == TRUE

\* the handler of /prices and get_cached_real_time_data are without an
\* await: the event loop gets control back when the handler has returned
Yields(pc) == pc = "returned"

\* request p may take its next statement; local is its state after it
Statement(p, from, local) ==
    /\ flight.running \in {0, p}
    /\ flight.of[p].pc = from
    /\ flight' = [running |-> IF Yields(local.pc) THEN 0 ELSE p,
                  of |-> [flight.of EXCEPT ![p] = local]]
    /\ UNCHANGED <<phase, req, resp, steps, chain, now, log>>

\* current_time = time.time() and the test for valid cached data
CheckCache(p) ==
    LET cache_key == CacheKey(FlightNetwork)
    IN  /\ Statement(p, "waiting",
                     IF CacheValid(cache_key)
                     THEN [pc |-> "looked_up", current_time |-> now, fetched |-> FALSE,
                           real_time_data |-> cacheData[cache_key].data]
                     ELSE [pc |-> "missed", current_time |-> now])
        /\ UNCHANGED <<cacheData, cacheTime>>

\* fresh_data = get_all_real_time_asset_data(network, cfg)
FetchFresh(p) ==
    /\ \E reads \in FetchReads(NetworkKey(FlightNetwork)) :
          Statement(p, "missed",
                    [pc |-> "fetched", current_time |-> flight.of[p].current_time,
                     fresh_data |-> get_all_real_time_asset_data(NetworkKey(FlightNetwork),
                                                                 reads)])
    /\ UNCHANGED <<cacheData, cacheTime>>

\* _real_time_data_cache[cache_key] = fresh_data
StoreData(p) ==
    /\ Statement(p, "fetched", [flight.of[p] EXCEPT !.pc = "data_stored"])
    /\ cacheData' = [cacheData EXCEPT ![CacheKey(FlightNetwork)] =
                         [present |-> TRUE, data |-> flight.of[p].fresh_data]]
    /\ UNCHANGED cacheTime

\* _cache_timestamps[cache_key] = current_time; return fresh_data
StoreTime(p) ==
    /\ Statement(p, "data_stored",
                 [pc |-> "looked_up", current_time |-> flight.of[p].current_time,
                  fetched |-> TRUE, real_time_data |-> flight.of[p].fresh_data])
    /\ cacheTime' = [cacheTime EXCEPT ![CacheKey(FlightNetwork)] =
                         [present |-> TRUE, t |-> flight.of[p].current_time]]
    /\ UNCHANGED cacheData

\* the handler returns real_time_data with _cache_timestamps.get(cache_key)
Return(p) ==
    /\ Statement(p, "looked_up",
                 [pc |-> "returned", current_time |-> flight.of[p].current_time,
                  fetched |-> flight.of[p].fetched,
                  real_time_data |-> flight.of[p].real_time_data,
                  resp |-> PricesResponse(FlightNetwork, flight.of[p].real_time_data,
                                          cacheTime[CacheKey(FlightNetwork)].t)])
    /\ UNCHANGED <<cacheData, cacheTime>>

\* time passes while the requests are in flight
FlightTick ==
    /\ \E t \in Instants : t > now /\ now' = t
    /\ UNCHANGED <<phase, req, resp, steps, chain, cacheData, cacheTime, log, flight>>

NextConcurrent ==
    \/ \E p \in Requests : CheckCache(p)
    \/ \E p \in Requests : FetchFresh(p)
    \/ \E p \in Requests : StoreData(p)
    \/ \E p \in Requests : StoreTime(p)
    \/ \E p \in Requests : Return(p)
    \/ FlightTick

SpecConcurrent == Init /\ [][NextConcurrent]_vars

\* the executor-signing server, one call at a time
NextExecutor ==
    \/ ExecuteSupply
    \/ NextRequest

SpecExecutor == Init /\ [][NextExecutor]_vars

\* the unit conversions on their own: amount_to_wei, then
\* format_token_amount on its result
InitConvert ==
    /\ phase = "idle"
    /\ req \in ConvertInputs
    /\ resp = NoResponse
    /\ steps = << >>
    /\ chain = NoReads
    /\ now = 0
    /\ cacheData = [n \in RequestNetworks |-> NoEntry]
    /\ cacheTime = [n \in RequestNetworks |-> NoEntry]
    /\ log = "none"
    /\ flight = NoFlight

Convert ==
    /\ phase = "idle"
    /\ req.endpoint = "convert"
    /\ \E amount_wei \in AmountToWeiOutcomes(req.m, req.k, req.decimals) :
          \E amount \in FormatOutcomes(amount_wei, req.decimals) :
             resp' = [status |-> 200, amount_wei |-> amount_wei, amount |-> amount]
    /\ phase' = "done"
    /\ steps' = <<"amount_to_wei", "format_token_amount">>
    /\ UNCHANGED <<req, chain, now, cacheData, cacheTime, log, flight>>

SpecConvert == InitConvert /\ [][Convert]_vars

\* the price cache over time
NextCache ==
    \/ Prices
    \/ Tick
    \/ NextRequest

SpecCache == Init /\ [][NextCache]_vars

\* the handlers and the price cache together: the market data of two
\* networks, fetched with every read succeeding; custom-net is requested at
\* the instant 0, base-sepolia once custom-net is cached, and the clock moves
\* on to the instant 60 once both are
FramePrices ==
    /\ Prices
    /\ req'.network \in {"base-sepolia", "custom-net"}
    /\ req'.network = "custom-net" => now = 0
    /\ req'.network = "base-sepolia" => cacheData["custom-net"].present
    /\ "fetch" \in DOMAIN chain' => \A sym \in DOMAIN chain'.fetch : chain'.fetch[sym] = LiveRead

FrameTick ==
    /\ cacheData["base-sepolia"].present
    /\ cacheData["custom-net"].present
    /\ Tick
    /\ now' = CacheDuration

NextFrame ==
    \/ Simulate
    \/ Supply
    \/ BuildTransaction
    \/ Borrow
    \/ Repay
    \/ Health
    \/ GasEstimate
    \/ Balance
    \/ ExecuteTransaction
    \/ FramePrices
    \/ FrameTick
    \/ NextRequest

SpecFrame == Init /\ [][NextFrame]_vars

(***************************************************************************)
(* Claims about POST /simulate.                                            *)
(***************************************************************************)
Simulated == phase = "done" /\ req.endpoint = "simulate" /\ resp.status = 200


\* C1 as stated: a simulated supply on an account whose total debt is 0
\* reports health_factor_after_est = 999.999, whatever the amount and token.
C1_Sentinel999 ==
    (Simulated /\ resp.action = "supply" /\ resp.calc.total_debt_base = 0)
        => resp.health_factor_after_est = 999999

\* C1 amended: a simulated supply on an account whose total debt is 0 reports
\* health_factor_after_est = 100.0, whatever the amount and token.
C1_Sentinel100 ==
    (Simulated /\ resp.action = "supply" /\ resp.calc.total_debt_base = 0)
        => resp.health_factor_after_est = 100000

C1_Witness ==
    /\ Simulated /\ resp.action = "supply" /\ resp.calc.total_debt_base = 0
    /\ resp.calc.token_value_base = 3000
    /\ resp.calc.total_collateral_base = 10000
    /\ resp.health_factor_after_est = 100000

\* C2: a simulated borrow whose value exceeds availableBorrowsBase answers
\* safety = insufficient capacity with health_factor_after_est = 0 and returns
\* before the formula, the cap/round step and the classification; a borrow
\* whose value is at most availableBorrowsBase never takes this branch.
C2_InsufficientCapacity ==
    (Simulated /\ resp.action = "borrow") =>
        IF resp.calc.token_value_base > resp.calc.available_borrows_base
        THEN /\ resp.safety = "insufficient capacity"
             /\ resp.health_factor_after_est = 0
             /\ ~Contains(steps, "hf_formula")
             /\ ~Contains(steps, "cap_round")
             /\ ~Contains(steps, "classify")
             /\ steps[Len(steps)] = "capacity_check"
        ELSE /\ resp.safety \in {"safe", "risky"}
             /\ Contains(steps, "classify")

C2_Witness ==
    /\ Simulated /\ resp.action = "borrow"
    /\ resp.calc.token_value_base = 3000
    /\ resp.calc.available_borrows_base = 0
    /\ resp.safety = "insufficient capacity"

\* C3: a simulated borrow that passes the capacity check leaves collateral
\* and weighted liquidation threshold as they are, adds the borrow value to
\* the debt, and computes HF_after = collateral * weightedLT / new debt;
\* collateral 10000, debt 5000, weighted LT 0.80 and a borrow worth 3000
\* give 1.0, classified risky.
C3_BorrowFormula ==
    (Simulated /\ resp.action = "borrow" /\ resp.safety # "insufficient capacity") =>
        LET c == resp.calc
        IN  /\ c.new_total_collateral = c.total_collateral_base
            /\ c.new_weighted_avg_lt = c.weighted_avg_lt
            /\ c.new_total_debt = c.total_debt_base + c.token_value_base
            /\ (c.total_debt_base + c.token_value_base # 0) =>
                  c.hf_after =
                     RatDivInt(RatMulInt(c.weighted_avg_lt, c.total_collateral_base),
                               c.total_debt_base + c.token_value_base)
            /\ (/\ c.total_collateral_base = 10000
                /\ c.total_debt_base = 5000
                /\ c.weighted_avg_lt = Rat(80, 100)
                /\ c.token_value_base = 3000) =>
                  /\ c.hf_after = RatInt(1)
                  /\ resp.health_factor_after_est = 1000
                  /\ resp.safety = "risky"

C3_Witness ==
    /\ Simulated /\ resp.action = "borrow"
    /\ resp.calc.total_collateral_base = 10000
    /\ resp.calc.total_debt_base = 5000
    /\ resp.calc.weighted_avg_lt = Rat(80, 100)
    /\ resp.calc.token_value_base = 3000
    /\ resp.health_factor_after_est = 1000
    /\ resp.safety = "risky"

\* C4 as stated: a simulated supply leaves the debt as it is, adds the value
\* to the collateral, takes as new weighted threshold
\* (oldCollateral * weightedLT + value * tokenLT) / (oldCollateral + value),
\* or 0 when the new total collateral is zero, and never divides by zero.
C4_SupplyFormula ==
    (Simulated /\ resp.action = "supply") =>
        LET c == resp.calc
            total == c.total_collateral_base + c.token_value_base
        IN  /\ c.new_total_debt = c.total_debt_base
            /\ c.new_total_collateral = total
            /\ (total # 0) =>
                  c.new_weighted_avg_lt =
                     RatDivInt(RatAdd(RatMulInt(c.weighted_avg_lt, c.total_collateral_base),
                                      RatMulInt(c.token_lt, c.token_value_base)),
                               total)
            /\ (total = 0) => c.new_weighted_avg_lt = RatInt(0)
            /\ Contains(steps, "lt_division") => total # 0
            /\ Contains(steps, "hf_formula") => c.new_total_debt # 0
            /\ (c.new_total_debt = 0) => ~Contains(steps, "hf_formula")

\* C5: a /simulate response other than the insufficient-capacity one reports
\* health_factor_after_est <= 999.999 and is safe exactly when the reported
\* value is >= 1.1, risky otherwise.
C5_CapAndClassify ==
    (Simulated /\ resp.safety # "insufficient capacity") =>
        /\ resp.health_factor_after_est <= 999999
        /\ resp.safety \in {"safe", "risky"}
        /\ (resp.safety = "safe") <=> (resp.health_factor_after_est >= 1100)

C5_Witness ==
    /\ Simulated /\ resp.safety = "safe"
    /\ resp.health_factor_after_est = 999999
    /\ resp.calc.new_total_debt = 3

\* C6 as stated: every /simulate response reports a health factor >= 0, for
\* every accepted amount (|amount| <= 1e9, negative ones with an explicit
\* action included) and every account snapshot.
C6_NonNegative ==
    Simulated => resp.health_factor_after_est >= 0

(***************************************************************************)
(* Claims about GET /prices and the price cache.                           *)
(***************************************************************************)
Fetched(s) == Contains(s, "get_all_real_time_asset_data")

\* a step that answers a /prices request for a configured network
PricesStep(network) ==
    /\ phase = "idle" /\ phase' = "done"
    /\ req' = PricesRequest(network)
    /\ NetworkKey(network) \in ConfiguredNetworks

\* less than 60 seconds have passed since the fetch that populated the cache
Within60(network) ==
    /\ cacheTime[network].present
    /\ cacheData[network].present
    /\ now - cacheTime[network].t < 60

\* 60 seconds or more have passed since the fetch that populated the cache
After60(network) ==
    /\ cacheTime[network].present
    /\ cacheData[network].present
    /\ now - cacheTime[network].t >= 60

\* the call is answered from the cache: no fetch, and the timestamp and data
\* of the fetch that populated it (its failure, if that fetch had no data)
AnsweredFromCache(network) ==
    /\ ~Fetched(steps')
    /\ UNCHANGED <<cacheData, cacheTime>>
    /\ IF cacheData[network].data # << >>
       THEN /\ resp'.status = 200
            /\ resp'.timestamp = cacheTime[network].t
            /\ resp'.prices = cacheData[network].data
       ELSE resp'.status = 500

UnconfiguredToken(r) ==
    /\ NetworkKey(r.network) \in ConfiguredNetworks
    /\ Upper(r.token) \notin Assets(NetworkKey(r.network))

\* a request that is well-formed apart from what the claim is about: a valid
\* user address and a positive amount, where the request carries them
WellFormed(r) ==
    /\ "user_ok" \in DOMAIN r => r.user_ok
    /\ "amount" \in DOMAIN r => r.amount > 0

\* C8 as stated: in supply, borrow, repay, simulate and gas estimate, a
\* request naming a token that is not configured for the requested network
\* is rejected as unsupported before any contract call is attempted (stated
\* for well-formed requests, where it already fails).
C8_UnsupportedBeforeAnyCall ==
    (/\ phase = "done"
     /\ req.endpoint \in {"supply", "borrow", "repay", "simulate", "gas_estimate"}
     /\ WellFormed(req)
     /\ UnconfiguredToken(req))
    => /\ resp.status >= 400
       /\ resp.error = "UnsupportedAsset"
       /\ steps = << >>

\* C9 as stated: whenever the pool reports a health factor below 1.1 (a raw
\* value of 0 and values that round up to 1.1 included), /borrow rejects the
\* request as blocked before build_pool_transaction is called and returns no
\* transaction (stated for well-formed requests, where it already fails).
C9_BorrowBlockedBelowThreshold ==
    (/\ phase = "done"
     /\ req.endpoint = "borrow"
     /\ WellFormed(req)
     /\ chain.getUserAccountData = "returned"
     /\ chain.healthFactor < 11000)
    => /\ resp.status >= 400
       /\ resp.error = "BorrowBlocked"
       /\ ~Contains(steps, "build_transaction")

\* C10 as stated: whenever the getUserAccountData read of a /health, /borrow
\* or /simulate request fails, the request ends in an upstream-failure error
\* response, so that /health returns no health factor and /borrow no
\* transaction (stated for well-formed requests, where it already fails).
C10_AccountReadFailureIsAnError ==
    (/\ phase = "done"
     /\ req.endpoint \in {"health", "borrow", "simulate"}
     /\ WellFormed(req)
     /\ chain.getUserAccountData = "raised")
    => /\ resp.status >= 400
       /\ resp.error = "UpstreamUnavailable"

(***************************************************************************)
(* Claims about approvals, nonces and amounts.                             *)
(***************************************************************************)
Built(endpoint) == phase = "done" /\ req.endpoint = endpoint /\ resp.status = 200

\* the allowance the handler worked with
CurrentAllowance == IF chain.allowance.ok THEN chain.allowance.v ELSE 0

\* C11 as stated: supply, borrow and repay each read the user's allowance
\* for the pool and return an approval transaction next to the main
\* transaction exactly when the allowance is below the requested base-unit
\* amount.
C11_ApprovalIffAllowanceShort ==
    (Built("supply") \/ Built("borrow") \/ Built("repay"))
    => /\ Contains(steps, "allowance")
       /\ "allowance" \in DOMAIN chain
       /\ "approval_transaction" \in DOMAIN resp
       /\ resp.approval_transaction.present
             <=> CurrentAllowance < resp.transaction.amount

\* the part of C11 that /supply meets
C11_SupplyApproval ==
    Built("supply")
    => /\ Contains(steps, "allowance")
       /\ resp.approval_transaction.present
             <=> CurrentAllowance < resp.transaction.amount

\* C12 as stated: when /supply returns an approval and a supply transaction,
\* the approval's nonce is strictly smaller than the supply transaction's,
\* the approval targets the underlying token with the pool as spender and
\* the same base-unit amount, and the supply transaction targets the pool.
C12_ApprovalThenSupply ==
    (Built("supply") /\ resp.approval_transaction.present)
    => /\ resp.approval_transaction.nonce < resp.transaction.nonce
       /\ resp.approval_transaction.to = resp.transaction.asset
       /\ resp.approval_transaction.spender = "pool"
       /\ resp.approval_transaction.amount = resp.transaction.amount
       /\ resp.transaction.to = "pool"

\* a request whose network, token and user address are accepted
AcceptedButAmount(r) ==
    /\ TokenCheck(r).status = 0
    /\ "user_ok" \in DOMAIN r => r.user_ok

\* C13 as stated: supply, borrow, repay, build/transaction and gas estimate
\* fail with an invalid-amount error, and build no transaction or approval
\* payload, when the amount is negative or above 1e9 tokens (stated for
\* requests none of whose chain reads fails, where it already fails).
C13_InvalidAmountRejected ==
    (/\ phase = "done"
     /\ req.endpoint \in {"supply", "borrow", "repay", "build_transaction", "gas_estimate"}
     /\ AcceptedButAmount(req)
     /\ resp.status >= 400 => resp.error # "UpstreamUnavailable"
     /\ (req.amount < 0 \/ req.amount > 1000000000))
    => /\ resp.status >= 400
       /\ resp.error = "InvalidAmount"
       /\ ~Contains(steps, "build_transaction")
       /\ ~Contains(steps, "get_transaction_count")

(***************************************************************************)
(* Claims about the unit conversions.  Amounts are compared in billionths  *)
(* of a token.                                                             *)
(***************************************************************************)
Converted == phase = "done" /\ req.endpoint = "convert"

Nano(m, k) == m * Pow10(9 - k)

\* the amount x, the base units and the amount that came back, in billionths
XNano == Nano(req.m, req.k)
WeiNano == Nano(resp.amount_wei, req.decimals)
BackNano == Nano(resp.amount, 6)

\* x has no more than req.decimals decimals
Representable == req.k <= req.decimals

\* C14 as stated: amount_to_wei uses the token's decimals and never rounds
\* up, the amount that format_token_amount returns for its result is x
\* within rounding tolerance, and a non-zero x representable in d decimals
\* does not come back as 0.
C14_RoundTrip ==
    Converted
    => /\ WeiNano <= XNano
       /\ Abs(BackNano - XNano) <= Nano(1, req.decimals) + 500
       /\ (Representable /\ req.m # 0) => resp.amount # 0

\* what the conversions do guarantee for tokens of up to 8 decimals:
\* amount_to_wei never rounds up, and the amount that format_token_amount
\* returns differs from x by at most one base unit plus half a millionth of
\* a token, since it is rounded to 6 decimals whatever the token's decimals
RoundTripTolerance ==
    Converted
    => /\ WeiNano <= XNano
       /\ Abs(BackNano - XNano) <= Nano(1, req.decimals) + 500
       /\ (req.m # 0 /\ resp.amount = 0) => XNano <= Nano(1, req.decimals) + 500


(***************************************************************************)
(* Claims about /health, the audit log and the market data.                *)
(***************************************************************************)
HealthAnswered == phase = "done" /\ req.endpoint = "health" /\ resp.status = 200

\* C15: /health returns safe_to_borrow = true for every user whose total
\* debt is 0, and in every response safe_to_borrow equals
\* (health_factor >= 1.1) for the health factor of that response.
C15_SafeToBorrow ==
    HealthAnswered
    => /\ chain.totalDebtBase = 0 => resp.safe_to_borrow
       /\ resp.safe_to_borrow = (resp.health_factor >= 1100)

\* a user without debt, for whom the pool reports its largest health
\* factor, is reported safe
C15_Witness ==
    /\ HealthAnswered
    /\ chain.totalDebtBase = 0
    /\ chain.getUserAccountData = "returned"
    /\ chain.healthFactor = NoDebtHealthFactor
    /\ resp.health_factor = 999000
    /\ resp.safe_to_borrow


LoggingEndpoints ==
    {"supply", "borrow", "repay", "simulate", "build_transaction", "execute_transaction"}

\* C16: a failure of the audit-log sink never changes the response of
\* supply, borrow, repay, simulate, build/transaction or execute/transaction,
\* and the handler does not wait for the delivery: when it answers, the log
\* is scheduled and not yet delivered or failed.
C16_LogNeverChangesResponse ==
    [][/\ (log = "scheduled" /\ log' \in {"delivered", "failed"})
          => (req.endpoint \in LoggingEndpoints /\ resp' = resp /\ phase' = phase)
       /\ (phase = "idle" /\ phase' = "done" /\ Contains(steps', "schedule_log"))
          => (req'.endpoint \in LoggingEndpoints /\ log' = "scheduled")
       /\ (phase = "idle" /\ phase' = "done" /\ ~Contains(steps', "schedule_log"))
          => log' = "none"]_vars

\* the transaction was executed and answered with 200, and the log failed
C16_Witness ==
    /\ phase = "done"
    /\ req.endpoint = "execute_transaction"
    /\ resp.status = 200
    /\ log = "failed"


\* a /prices request fetched and the chain was read
FetchedWithReads == phase = "done" /\ req.endpoint = "prices" /\ "fetch" \in DOMAIN chain

\* C17: when the price read or the configuration read of one token fails,
\* the batch still succeeds with the live entries of the other tokens, and
\* the entry of the failed token carries the price and the liquidation
\* threshold of the per-symbol fallback tables.
C17_FallbackPerSymbol ==
    FetchedWithReads
    => /\ resp.status = 200
       /\ \A sym \in DOMAIN chain.fetch :
             LET read == chain.fetch[sym]
                 entry == resp.prices[sym]
             IN  /\ read = LiveRead => entry = AssetEntry(LiveRead)
                 /\ ~read.price.ok => entry.price = get_fallback_price(sym)
                 /\ ~read.config.ok
                    => entry.liquidation_threshold = get_fallback_liquidation_threshold(sym)


\* the token's thresholds came from the data provider
FromDataProvider ==
    /\ chain.config.ok
    /\ NETWORK_CONFIG(NetworkKey(req.network)).pdp
    /\ NETWORK_CONFIG(NetworkKey(req.network)).oracle

\* C18: every liquidation threshold and LTV that enters the /simulate
\* health-factor formula, the account's weighted threshold from
\* getUserAccountData and the token's from the data provider, is the raw
\* basis-point value divided by 10000.
C18_BasisPoints ==
    Simulated =>
        LET c == resp.calc
            weighted == Rat(chain.account.currentLiquidationThreshold, 10000)
            passed == resp.safety # "insufficient capacity"
        IN  /\ c.weighted_avg_lt = weighted
            /\ FromDataProvider
               => /\ c.token_lt = Rat(chain.config.v.liquidationThreshold, 10000)
                  /\ passed => resp.token_data.ltv = Rat(chain.config.v.ltv, 10000)
            /\ (resp.action = "borrow" /\ passed /\ c.new_total_debt # 0)
               => c.hf_after = RatDivInt(RatMulInt(weighted, c.total_collateral_base),
                                         c.new_total_debt)
            /\ (resp.action = "supply" /\ FromDataProvider /\ c.new_total_collateral > 0)
               => c.new_weighted_avg_lt =
                     RatDivInt(RatAdd(RatMulInt(weighted, c.total_collateral_base),
                                      RatMulInt(Rat(chain.config.v.liquidationThreshold, 10000),
                                                c.token_value_base)),
                               c.new_total_collateral)

\* a borrow against collateral 10000 with raw thresholds 8000 and 8500
C18_Witness ==
    /\ Simulated /\ resp.action = "borrow"
    /\ resp.safety # "insufficient capacity"
    /\ FromDataProvider
    /\ chain.account.currentLiquidationThreshold = 8000
    /\ chain.account.totalCollateralBase = 10000
    /\ resp.calc.weighted_avg_lt = Rat(80, 100)
    /\ resp.calc.token_lt = Rat(85, 100)
    /\ resp.calc.new_total_debt = 8000
    /\ resp.calc.hf_after = RatInt(1)


(***************************************************************************)
(* Claims about the price cache and the other endpoints.                   *)
(***************************************************************************)
EntryChanges(n) == cacheData'[n] # cacheData[n] \/ cacheTime'[n] # cacheTime[n]

OtherEndpoints ==
    {"supply", "borrow", "repay", "simulate", "health", "balance", "gas_estimate",
     "execute_transaction", "build_transaction"}

\* C19: the cache entry of a network changes only when a market-data
\* request for that network finds it missing or at least 60 seconds old;
\* supply, borrow, repay, simulate, health, balance, gas estimate and
\* execute/transaction leave every entry as it is, and a request for one
\* network leaves the entries of the others as they are.
C19_CacheFrame ==
    [][/\ \A n \in RequestNetworks :
             EntryChanges(n)
             => /\ phase = "idle" /\ phase' = "done"
                /\ req'.endpoint = "prices"
                /\ req'.network = n
                /\ \/ ~cacheData[n].present
                   \/ now - cacheTime[n].t >= 60
       /\ (phase = "idle" /\ phase' = "done" /\ req'.endpoint \in OtherEndpoints)
          => UNCHANGED <<cacheData, cacheTime>>]_vars

\* base-sepolia was refreshed at 60 by a request for it, and the entry of
\* custom-net is still the one of 0
C19_Witness ==
    /\ phase = "done" /\ req.endpoint = "prices" /\ req.network = "base-sepolia"
    /\ now = 60
    /\ cacheTime["base-sepolia"] = [present |-> TRUE, t |-> 60]
    /\ cacheTime["custom-net"] = [present |-> TRUE, t |-> 0]

\* a handler other than /prices answered while the cache held an entry
C19_WitnessOther ==
    /\ phase = "done" /\ req.endpoint = "simulate" /\ resp.status = 200
    /\ cacheData["base-sepolia"].present


\* the market data of the network was fetched successfully less than 60
\* seconds ago
FreshlyFetched(network) ==
    /\ cacheData[network].present
    /\ cacheData[network].data # << >>
    /\ now - cacheTime[network].t < 60

MarketReadsIn(calls) ==
    Contains(calls, "getAssetPrice") \/ Contains(calls, "getReserveConfigurationData")

\* C20: a /simulate or /prices request that arrives less than 60 seconds
\* after a successful fetch of its network's market data uses the cache and
\* issues no new oracle or data-provider read.
C20_OneFetchPerWindow ==
    [][(/\ phase = "idle" /\ phase' = "done"
        /\ req'.endpoint \in {"simulate", "prices"}
        /\ FreshlyFetched(req'.network))
       => ~MarketReadsIn(steps')]_vars


(***************************************************************************)
(* Claims about concurrent /prices requests.                               *)
(***************************************************************************)
\* the data and the timestamp of each fetch completed so far
CompletedFetches ==
    {<<flight.of[p].fresh_data, flight.of[p].current_time>> :
        p \in {q \in Requests : flight.of[q].pc \in {"fetched", "data_stored"}}}
    \cup
    {<<flight.of[p].real_time_data, flight.of[p].current_time>> :
        p \in {q \in Requests : flight.of[q].pc \in {"looked_up", "returned"}
                                /\ flight.of[q].fetched}}

AllReturned == \A p \in Requests : flight.of[p].pc = "returned"

\* C21: for every interleaving of concurrent /prices requests for the same
\* network during a cache miss, each request returns the result of one
\* completed fetch with the timestamp stored with that data, and after all
\* requests have finished the cache holds the data and the timestamp that a
\* single request wrote.
C21_ConcurrentPrices ==
    /\ \A p \in Requests :
          (flight.of[p].pc = "returned" /\ flight.of[p].resp.status = 200)
          => <<flight.of[p].resp.prices, flight.of[p].resp.timestamp>> \in CompletedFetches
    /\ AllReturned
       => <<cacheData[CacheKey(FlightNetwork)].data, cacheTime[CacheKey(FlightNetwork)].t>>
             \in CompletedFetches

\* both requests missed the cache and fetched, at different instants and
\* with different results, and both have returned
C21_Witness ==
    /\ AllReturned
    /\ \A p \in Requests : flight.of[p].fetched /\ flight.of[p].resp.status = 200
    /\ flight.of[1].current_time # flight.of[2].current_time
    /\ flight.of[1].real_time_data # flight.of[2].real_time_data


(***************************************************************************)
(* Claims about the responses delivered to the caller.                     *)
(***************************************************************************)
\* C22: every successful /simulate response delivered to the caller has
\* health_factor_before, health_factor_after_est, safety, note and
\* token_data with price_usd, ltv and liquidation_threshold.
C22_SimulateFields ==
    Simulated =>
        LET body == SimulateResponse(resp)
        IN  /\ {"health_factor_before", "health_factor_after_est", "safety", "note",
                "token_data"} \subseteq DOMAIN body
            /\ {"price_usd", "ltv", "liquidation_threshold"} \subseteq DOMAIN body.token_data


\* how many times call occurs in calls
Count(calls, call) == Cardinality({i \in DOMAIN calls : calls[i] = call})

Executed == phase = "done" /\ req.endpoint = "execute_transaction"

\* C23: /execute/transaction submits the signed transaction exactly once,
\* answers success only after the receipt was obtained, with the hash of the
\* transaction, and exactly when the receipt has status 1; any other
\* status, and a failure to submit, give an error.
C23_ExecuteOnce ==
    Executed
    => /\ Count(steps, "send_raw_transaction") <= 1
       /\ NetworkKey(req.network) \in ConfiguredNetworks
          => Count(steps, "send_raw_transaction") = 1
       /\ resp.status = 200
          <=> /\ "receipt" \in DOMAIN chain
              /\ chain.sent.ok
              /\ chain.receipt.ok
              /\ chain.receipt.v = 1
       /\ resp.status = 200
          => /\ resp.state = "success"
             /\ resp.tx_hash = chain.sent.v
             /\ steps[1] = "send_raw_transaction"
             /\ steps[2] = "wait_for_transaction_receipt"
       /\ resp.status # 200 => resp.status >= 400

\* the transaction was submitted and its receipt has status 0: an error
C23_Witness ==
    /\ Executed
    /\ "receipt" \in DOMAIN chain
    /\ chain.receipt = Returned(0)
    /\ resp.status = 500
    /\ Count(steps, "send_raw_transaction") = 1


\* the gas limit the handler falls back on
DefaultGas(endpoint) ==
    CASE endpoint = "borrow" -> 400000
      [] endpoint = "repay" -> 350000
      [] OTHER -> 300000

\* C24: the gas field of the unsigned transaction returned by /supply,
\* /borrow, /repay and /build/transaction is a positive gas limit, the
\* handler's default when build_pool_transaction supplies no estimate.
C24_PositiveGas ==
    /\ \A endpoint \in {"supply", "borrow", "repay"} :
          Built(endpoint)
          => /\ resp.transaction.gas > 0
             /\ resp.transaction.gas = DefaultGas(endpoint)
    /\ Built("build_transaction")
       => /\ resp.gas_estimate > 0
          /\ resp.gas_estimate = DefaultGas("build_transaction")


\* the errors the handlers raise with status 400
RaisedWith400 == {"UnsupportedAsset", "UnsupportedNetwork", "BorrowBlocked"}

\* C25: in /supply, /borrow, /repay, /build/transaction and /gas/estimate an
\* error the handler raises with status 400 (token not supported on the
\* network, unsupported network, health factor too low for borrowing)
\* reaches the caller with status 400.
C25_Status400Kept ==
    (/\ phase = "done"
     /\ req.endpoint \in {"supply", "borrow", "repay", "build_transaction", "gas_estimate"}
     /\ resp.status >= 400
     /\ resp.error \in RaisedWith400)
    => resp.status = 400


\* C26: in /balance the three balance reads of a token are independent: the
\* aToken and the debt-token balance reported for a token are what their own
\* reads returned, whatever became of the underlying read of that token or
\* of the reads of any other token, a failed underlying read sets the
\* underlying field to 0, and the response is a success
BalanceAnswered ==
    /\ phase = "done"
    /\ req.endpoint = "balance"
    /\ "balanceOf" \in DOMAIN chain

Reported(sym, read) ==
    IF ~read.ok \/ AssetDecimals(sym) > 15 THEN 0
    ELSE CHOOSE amount \in FormatOutcomes(read.v, AssetDecimals(sym)) : TRUE

C26_IndependentReads ==
    BalanceAnswered =>
        /\ resp.status = 200
        /\ \A sym \in DOMAIN chain.balanceOf :
              /\ ~chain.balanceOf[sym].underlying.ok => resp.tokens[sym].underlying = 0
              /\ resp.tokens[sym].aToken = Reported(sym, chain.balanceOf[sym].aToken)
              /\ resp.tokens[sym].vToken = Reported(sym, chain.balanceOf[sym].vToken)


(***************************************************************************)
(* Claims about a fetch that yields no market data.                        *)
(***************************************************************************)
\* the last fetch of the network's market data yielded an empty result, so
\* the /prices call that made it failed with "Failed to fetch real-time data"
LastFetchEmpty(network) ==
    /\ cacheData[network].present
    /\ cacheData[network].data = << >>

\* C27: a market-data fetch that yields an empty result does not populate
\* the cache: the /prices call that follows a failed one for the same
\* network performs a new fetch, also within 60 seconds.
C27_EmptyNotCached ==
    [][\A network \in PricesNetworks :
          (PricesStep(network) /\ LastFetchEmpty(network)) => Fetched(steps')]_vars


(***************************************************************************)
(* Claims about the direction in which /simulate moves the health factor.  *)
(***************************************************************************)
\* a <= b for fractions in lowest terms with positive denominators
RatLeq(a, b) == a.n * b.d <= b.n * a.d

\* a simulation that reached the formula for an account in debt, with a
\* non-negative amount
SimulatedInDebt ==
    /\ phase = "done"
    /\ req.endpoint = "simulate"
    /\ resp.status = 200
    /\ resp.safety # "insufficient capacity"
    /\ resp.calc.total_debt_base > 0
    /\ resp.amount >= 0

\* (collateral x weightedLT) / debt of the account as read
FormulaHfBefore ==
    RatDivInt(RatMulInt(resp.calc.weighted_avg_lt, resp.calc.total_collateral_base),
              resp.calc.total_debt_base)

C28_WitnessSupply ==
    /\ SimulatedInDebt
    /\ resp.action = "supply"
    /\ resp.calc.token_value_base > 0
    /\ resp.calc.hf_after # FormulaHfBefore
    /\ RatLeq(FormulaHfBefore, resp.calc.hf_after)


(***************************************************************************)
(* Claims about the 1.1 threshold and the rounding to three decimals.      *)
(***************************************************************************)
\* C29: no /simulate result whose health factor by the formula, before the
\* rounding to three decimals, is strictly below 1.1 is classified safe,
\* and /borrow never lets through a user whose unrounded on-chain health
\* factor is strictly below 1.1.
C29_ThresholdBeforeRounding ==
    /\ (/\ phase = "done"
        /\ req.endpoint = "simulate"
        /\ resp.status = 200
        /\ resp.safety = "safe")
       => RatLeq(Rat(11, 10), resp.calc.hf_after)
    /\ (/\ phase = "done"
        /\ req.endpoint = "borrow"
        /\ resp.status = 200
        /\ chain.getUserAccountData = "returned")
       => chain.healthFactor >= 11000


(***************************************************************************)
(* Claims about the executor-signing variant.                              *)
(***************************************************************************)
SupplyExecuted == phase = "done" /\ req.endpoint = "execute_supply"

RequiredAmount == req.amount * Pow10(ExecutorDecimals)

WasRead(name) == name \in DOMAIN chain.read /\ chain.read[name].ok

SentSupplyAt(i) == i \in DOMAIN chain.sent /\ chain.sent[i].fn = "supply"

\* C30: execute_supply sends no transaction when the executor's balance is
\* below the required amount; when the allowance is below the amount it
\* sends the approve transaction first, with the nonce it read, and the
\* supply transaction only after an approve receipt of status 1 and with
\* the next nonce; when the allowance is sufficient it sends only the
\* supply transaction, with the nonce it read; it reports success only if
\* the supply receipt has status 1.
C30_ExecutorSupply ==
    SupplyExecuted =>
        /\ (WasRead("balance") /\ chain.read.balance.v < RequiredAmount)
              => chain.sent = << >>
        /\ (WasRead("allowance") /\ chain.read.allowance.v < RequiredAmount)
              => /\ Len(chain.sent) <= 2
                 /\ chain.sent # << >> =>
                       /\ chain.sent[1].fn = "approve"
                       /\ chain.sent[1].nonce = chain.read.nonce.v
                 /\ Len(chain.sent) = 2 =>
                       /\ SentSupplyAt(2)
                       /\ chain.read.approveReceipt = Returned(1)
                       /\ chain.sent[2].nonce = chain.sent[1].nonce + 1
        /\ (WasRead("allowance") /\ chain.read.allowance.v >= RequiredAmount)
              => /\ Len(chain.sent) <= 1
                 /\ chain.sent # << >> =>
                       /\ SentSupplyAt(1)
                       /\ chain.sent[1].nonce = chain.read.nonce.v
        /\ resp.status = "success"
              => /\ SentSupplyAt(Len(chain.sent))
                 /\ "supplyReceipt" \in DOMAIN chain.read
                 /\ chain.read.supplyReceipt = Returned(1)

\* an approval with nonce 7 whose receipt has status 1, followed by a supply
\* with nonce 8 that succeeded
C30_Witness ==
    /\ SupplyExecuted
    /\ resp.status = "success"
    /\ chain.read.allowance.v < RequiredAmount
    /\ Len(chain.sent) = 2
    /\ chain.sent[1].nonce = 7
    /\ chain.sent[2].nonce = 8

\* a supply without approval that reverted
C30_WitnessReverted ==
    /\ SupplyExecuted
    /\ resp.status = "error"
    /\ Len(chain.sent) = 1
    /\ SentSupplyAt(1)
    /\ WasRead("supplyReceipt") /\ chain.read.supplyReceipt.v = 0

====
